---- MODULE Spec2Model ----
(***************************************************************************)
(* Model of the two purchase-flow scripts of the repository:               *)
(*   src/tools/tennis_shopping_bot.py        PurchaseFlowTool ("prog")      *)
(*   src/test2/tools/tennis_shopping_bot.py  dify_headless_purchase_flow    *)
(*                                           ("inter")                      *)
(* Strings are sequences of characters (one-character strings); the long   *)
(* literal tails of messages are kept as one element.  The target web page *)
(* is the environment: every page operation ends "ok", "timeout"           *)
(* (PlaywrightTimeoutError) or "error" (any other exception).              *)
(***************************************************************************)
EXTENDS Integers, Sequences, FiniteSets, TLC

(* ------------------------------ bounds --------------------------------- *)
\* longest list of result links the page returns for one search
MaxLinks == 2
\* most required fields that are absent or blank in one parameter mapping
MaxMissing == 2
\* most times one prompt loop of the interactive flow goes round again
MaxPrompts == 1

(* ------------------------------ strings -------------------------------- *)
Upper == <<"A","B","C","D","E","F","G","H","I","J","K","L","M",
           "N","O","P","Q","R","S","T","U","V","W","X","Y","Z">>
LowerCase == <<"a","b","c","d","e","f","g","h","i","j","k","l","m",
               "n","o","p","q","r","s","t","u","v","w","x","y","z">>
Whitespace == {" ", "\t", "\n"}

\* str.lower() on one character
LowerChar(c) ==
  IF \E i \in 1..Len(Upper) : Upper[i] = c
  THEN LowerCase[CHOOSE i \in 1..Len(Upper) : Upper[i] = c]
  ELSE c

\* str.lower()
Lower(s) == [i \in 1..Len(s) |-> LowerChar(s[i])]

RECURSIVE LStrip(_)
LStrip(s) == IF s # <<>> /\ Head(s) \in Whitespace THEN LStrip(Tail(s)) ELSE s

RECURSIVE RStrip(_)
RStrip(s) ==
  IF s # <<>> /\ s[Len(s)] \in Whitespace THEN RStrip(SubSeq(s, 1, Len(s) - 1)) ELSE s

\* str.strip()
Strip(s) == RStrip(LStrip(s))

\* str.startswith(prefix)
StartsWith(s, prefix) ==
  Len(s) >= Len(prefix) /\ SubSeq(s, 1, Len(prefix)) = prefix

\* sep.join(list of strings)
RECURSIVE Join(_, _)
Join(list, sep) ==
  IF list = <<>> THEN <<>>
  ELSE IF Len(list) = 1 THEN list[1]
  ELSE list[1] \o sep \o Join(Tail(list), sep)

\* the elements of a list, as a set
Range(f) == {f[i] : i \in DOMAIN f}

(* --------------------------- values of a mapping ----------------------- *)
Absent == [k |-> "absent"]
NoneV == [k |-> "none"]
S(s) == [k |-> "str", v |-> s]
Dict(d) == [k |-> "dict", v |-> d]

\* dict.get(key, default)
Get(mapping, key, default) ==
  IF mapping[key].k = "absent" THEN default ELSE mapping[key]

\* str(value)
Str(x) == IF x.k = "none" THEN <<"N","o","n","e">> ELSE x.v

(* ----------------------------- constants ------------------------------- *)
Racquet == <<"r","a","c","q","u","e","t">>
Garment == <<"g","a","r","m","e","n","t">>
Shoes == <<"s","h","o","e","s">>
Other == <<"o","t","h","e","r">>
PRODUCT_CATEGORIES == <<Racquet, Garment, Shoes, Other>>

max_attempts == 3

ErrorPrefix == <<"E","r","r","o","r",":">>

required_fields ==
  <<"first_name", "last_name", "email", "phone", "address", "city", "state",
    "postal_code", "card_number", "card_expiration", "card_cvv">>

\* descriptions carried by the exceptions the page operations raise
TimeoutDesc == <<"Timeout exceeded.">>
ErrorDesc == <<"Target page, context or browser has been closed">>
LaunchDesc == <<"Executable doesn't exist">>

DescOf(out) == IF out = "timeout" THEN TimeoutDesc ELSE ErrorDesc

Outcomes == {"ok", "timeout", "error"}

(* ------------------------------- inputs -------------------------------- *)
X == <<"x">>
Expiration == <<"1","2","/","2","5">>
ItemEntry == <<"A","b"," ">>

optional_fields ==
  <<"variant_details", "billing_address", "coupon_code", "shipping_option",
    "gift_wrapping_message">>

ParamKeys ==
  {"category", "item_name"} \cup Range(required_fields) \cup Range(optional_fields)

VariantKeys == {"size", "string_type", "string_tension", "color", "option1"}

\* a mapping with every required field supplied and no optional one
BaseParams ==
  [k \in ParamKeys |->
     CASE k = "category" -> S(Racquet)
       [] k = "item_name" -> S(ItemEntry)
       [] k = "card_expiration" -> S(Expiration)
       [] k \in Range(required_fields) \ {"card_expiration"} -> S(X)
       [] OTHER -> Absent]

\* a mapping that also supplies every optional field
FullParams ==
  [BaseParams EXCEPT
     !["variant_details"] = Dict([k \in VariantKeys |-> <<"v">>]),
     !["billing_address"] = S(<<"y">>),
     !["coupon_code"] = S(<<"c">>),
     !["shipping_option"] = S(<<"e">>),
     !["gift_wrapping_message"] = S(<<"g">>)]

RawCategories ==
  { S(<<" ","R","a","c","q","u","e","t"," ">>), S(<<"S","H","O","E","S">>),
    S(<<"b","i","k","e">>), S(<<"r","a","c","q","u","e","t","s">>),
    S(<<" ">>), S(<<>>), NoneV, Absent }

ValidRawCategories == {S(Racquet), S(Garment), S(Shoes), S(Other)}

\* what a required field holds when it is not plainly supplied
MissingVals == {Absent, S(<<>>), S(<<" ">>), NoneV}

\* mappings in which 1..MaxMissing required fields are not plainly supplied
FieldInputs ==
  UNION { { [k \in ParamKeys |-> IF k \in D THEN f[k] ELSE BaseParams[k]] :
              f \in {g \in [D -> MissingVals] :
                       \A k \in D : g[k].k = "none" => k = "phone"} } :
          D \in {E \in SUBSET Range(required_fields) :
                   Cardinality(E) \in 1..MaxMissing} }

\* billing addresses that are the shipping address or blank once stripped
BillingInputs == { S(<<" ","x">>), S(<<" ">>) }

ProgInputs ==
  { [BaseParams EXCEPT !["category"] = c] : c \in RawCategories }
  \cup { [FullParams EXCEPT !["category"] = c] : c \in ValidRawCategories }
  \cup { [FullParams EXCEPT !["billing_address"] = b] : b \in BillingInputs }
  \cup FieldInputs
  \cup { [p EXCEPT !["category"] = S(<<"b","i","k","e">>)] : p \in FieldInputs }

\* the titles a result link can carry
Titles == { <<" ","A","B">>, <<"a","b","c">> }
Links ==
  { [readable |-> TRUE, title |-> t] : t \in Titles }
  \cup { [readable |-> FALSE, title |-> <<>>] }
LinkLists == UNION { [1..n -> Links] : n \in 0..MaxLinks }

(* ------------------------------- state --------------------------------- *)
VARIABLES
  variant,          \* "prog": PurchaseFlowTool, "inter": dify_headless_purchase_flow
  tool_parameters,  \* prog: the mapping handed to _invoke
  item_name,        \* the item name searched for
  category,         \* the normalised category
  params,           \* the collected request (prog: what _extract_parameters returns)
  pc,               \* the statement the flow is at
  playwright,       \* "none", "running" (inside the with block), "stopped"
  browser,          \* "none", "open", "closed" (browser.close()), "killed"
  launches,         \* calls of chromium.launch that returned a browser
  closes,           \* calls of browser.close()
  attempts,         \* the search loop's counter
  links,            \* the result links of the last search
  clicked,          \* index in links of the link clicked (0: none)
  idx,              \* position inside a multi-step stage
  trace,            \* page operations attempted so far, in order
  last,             \* the last page operation and how it ended
  exc,              \* description of the exception in flight (<<>>: none)
  ret,              \* value of the return statement executed (<<>>: none)
  result,           \* what the flow returned to its caller (<<>>: not yet)
  messages,         \* prog: messages yielded by _invoke
  prompts,          \* inter: times the prompt loop being run went round again
  entry             \* inter: the last entry typed at a search-loop prompt

vars ==
  <<variant, tool_parameters, item_name, category, params, pc, playwright,
    browser, launches, closes, attempts, links, clicked, idx, trace, last, exc,
    ret, result, messages, prompts, entry>>

inputVars == <<variant, tool_parameters>>
requestVars == <<item_name, category, params>>
searchVars == <<attempts, links, clicked>>
promptVars == <<prompts, entry>>

NoOp == [op |-> "none", out |-> "none"]
NoParams == [k \in {} |-> Absent]

Init ==
  /\ variant \in {"prog", "inter"}
  /\ tool_parameters \in (IF variant = "prog" THEN ProgInputs ELSE {NoParams})
  /\ item_name = <<>>
  /\ category = <<>>
  /\ params = NoParams
  /\ pc = IF variant = "prog" THEN "invoke" ELSE "prompt_item"
  /\ playwright = "none"
  /\ browser = "none"
  /\ launches = 0
  /\ closes = 0
  /\ attempts = 0
  /\ links = <<>>
  /\ clicked = 0
  /\ idx = 0
  /\ trace = <<>>
  /\ last = NoOp
  /\ exc = <<>>
  /\ ret = <<>>
  /\ result = <<>>
  /\ messages = <<>>
  /\ prompts = 0
  /\ entry = <<>>

(* ---------------------- PurchaseFlowTool._invoke ----------------------- *)
TextMessage(text) == [type |-> "text", text |-> text]
JsonMessage(success, message) ==
  [type |-> "json", success |-> success, message |-> message]

InvalidCategoryText(cat) ==
  <<"Invalid category '">> \o cat \o <<"'. Valid categories are: ">>
    \o Join(PRODUCT_CATEGORIES, <<",", " ">>)

StartingText == <<"Starting purchase flow...">>

\* the rvalue without .strip() (mutant)
FieldValue_NoStrip(tp, field) == Str(Get(tp, field, S(<<>>)))

\* rvalue of a required field in _extract_parameters
FieldValue(tp, field) == Strip(Str(Get(tp, field, S(<<>>))))

\* the fields of required_fields whose extracted value is empty, in order
missing_fields(tp) ==
  SelectSeq(required_fields, LAMBDA field : FieldValue(tp, field) = <<>>)

MissingFieldsText(missing) ==
  <<"Missing required fields: ">>
    \o Join([i \in 1..Len(missing) |-> <<missing[i]>>], <<",", " ">>)

\* _extract_parameters: the parameters, or a mapping holding "error"
extract_parameters(tp) ==
  IF missing_fields(tp) # <<>>
  THEN [k \in {"error"} |-> MissingFieldsText(missing_fields(tp))]
  ELSE [k \in (Range(required_fields) \cup Range(optional_fields) \cup {"country"}) |->
          CASE k \in Range(required_fields) -> FieldValue(tp, k)
            [] k = "country" -> <<"United States">>
            [] k = "variant_details" -> Get(tp, k, Dict([j \in {} |-> <<>>]))
            [] k = "billing_address" ->
                 Strip(Str(Get(tp, k, S(FieldValue(tp, "address")))))
            [] OTHER -> Get(tp, k, NoneV)]

\* the category test with an empty category let through (mutant)
category_valid_EmptyAccepted(cat) == cat = <<>> \/ cat \in Range(PRODUCT_CATEGORIES)

\* the category test of _invoke
category_valid(cat) == cat \in Range(PRODUCT_CATEGORIES)

NormalisedCategory(tp) == Strip(Lower(Str(Get(tp, "category", S(<<>>)))))
NormalisedItemName(tp) == Strip(Lower(Str(Get(tp, "item_name", S(<<>>)))))

\* _invoke with the required fields checked before the category (mutant)
Invoke_FieldsFirst ==
  /\ variant = "prog"
  /\ pc = "invoke"
  /\ item_name' = NormalisedItemName(tool_parameters)
  /\ category' = NormalisedCategory(tool_parameters)
  /\ LET p == extract_parameters(tool_parameters) IN
     IF "error" \in DOMAIN p
     THEN /\ messages' = Append(messages, TextMessage(p["error"]))
          /\ params' = params
          /\ pc' = "done"
     ELSE IF ~category_valid(category')
     THEN /\ messages' = Append(messages, TextMessage(InvalidCategoryText(category')))
          /\ params' = params
          /\ pc' = "done"
     ELSE /\ messages' = Append(messages, TextMessage(StartingText))
          /\ params' = p
          /\ pc' = "launch"
  /\ UNCHANGED <<inputVars, playwright, browser, launches, closes, searchVars,
                 idx, trace, last, exc, ret, result, promptVars>>

\* _invoke up to its first yield
Invoke ==
  /\ variant = "prog"
  /\ pc = "invoke"
  /\ item_name' = NormalisedItemName(tool_parameters)
  /\ category' = NormalisedCategory(tool_parameters)
  /\ IF ~category_valid(category')
     THEN /\ messages' = Append(messages, TextMessage(InvalidCategoryText(category')))
          /\ params' = params
          /\ pc' = "done"
     ELSE LET p == extract_parameters(tool_parameters) IN
          IF "error" \in DOMAIN p
          THEN /\ messages' = Append(messages, TextMessage(p["error"]))
               /\ params' = params
               /\ pc' = "done"
          ELSE /\ messages' = Append(messages, TextMessage(StartingText))
               /\ params' = p
               /\ pc' = "launch"
  /\ UNCHANGED <<inputVars, playwright, browser, launches, closes, searchVars,
                 idx, trace, last, exc, ret, result, promptVars>>

\* the success flag with the prefix looked for without its colon (mutant)
result_success_WrongPrefix(r) == ~StartsWith(r, <<"E","r","r","o","r"," ">>)

\* "success": not result.startswith("Error:")
result_success(r) == ~StartsWith(r, ErrorPrefix)

\* _invoke after _execute_purchase_flow returned
InvokeResult ==
  /\ variant = "prog"
  /\ pc = "emit"
  /\ messages' = Append(messages,
                        JsonMessage(result_success(result), result))
  /\ pc' = "done"
  /\ UNCHANGED <<inputVars, requestVars, playwright, browser, launches, closes,
                 searchVars, idx, trace, last, exc, ret, result, promptVars>>

(* ------------------------- steps of the flow --------------------------- *)
\* one page operation: what was attempted, how it ended, where control goes
Flow(op, out, nextpc, newexc, newret, closing) ==
  /\ trace' = Append(trace, op)
  /\ last' = [op |-> op, out |-> out]
  /\ pc' = nextpc
  /\ exc' = newexc
  /\ ret' = newret
  /\ browser' = IF closing THEN "closed" ELSE browser
  /\ closes' = IF closing THEN closes + 1 ELSE closes

\* the operation ended and the flow goes on
Go(op, out, nextpc) == Flow(op, out, nextpc, exc, ret, FALSE)

\* the operation raised an exception no handler inside the with block catches
Throw(op, out, desc) == Flow(op, out, "with_exit", desc, ret, FALSE)

\* return msg with the browser.close() before it left out (mutant)
CloseReturn_NoClose(op, out, msg) == Flow(op, out, "with_exit", exc, msg, FALSE)

\* browser.close() followed by return msg
CloseReturn(op, out, msg) == Flow(op, out, "with_exit", exc, msg, TRUE)

\* a statement that performs no page operation
Skip(nextpc) ==
  /\ pc' = nextpc
  /\ UNCHANGED <<trace, last, exc, ret, browser, closes>>

\* try: s1 / except PlaywrightTimeoutError: try: s2 / except ...: the position
\* of the first selector that does not time out (0: every one timed out)
ChainIndex(outs) ==
  IF \A i \in 1..Len(outs) : outs[i] = "timeout" THEN 0
  ELSE CHOOSE i \in 1..Len(outs) :
         outs[i] # "timeout" /\ \A j \in 1..(i - 1) : outs[j] = "timeout"

\* the outcome of such a chain: "ok", "error" (escapes the chain) or "timeout"
ChainTimeout(outs) ==
  IF ChainIndex(outs) = 0 THEN "timeout" ELSE outs[ChainIndex(outs)]

\* try: s1 / except: try: s2 / except: ...: some selector worked, or none did
ChainAny(outs) ==
  IF \E i \in 1..Len(outs) : outs[i] = "ok" THEN "ok" ELSE "none"

\* truth value of an optional parameter (None and "" are false)
Truthy(x) == x.k = "str" /\ x.v # <<>>

\* variant_details.get(key), as a truth value
VariantSupplied(vd, key) == key \in DOMAIN vd.v /\ vd.v[key] # <<>>

(* -------------- PurchaseFlowTool._execute_purchase_flow ---------------- *)
SearchFailedMsg == ErrorPrefix \o <<" Product search failed after multiple attempts">>
NoProductsMsg == ErrorPrefix \o <<" No products found matching the search criteria">>
UnableToSelectMsg == ErrorPrefix \o <<" Unable to select a product">>
AddToCartMsg_Copied == ErrorPrefix \o <<" Checkout button not found">>
AddToCartMsg == ErrorPrefix \o <<" Add to Cart button not found">>
CheckoutMsg == ErrorPrefix \o <<" Checkout button not found">>
NavigationFailedMsg(desc) == ErrorPrefix \o <<" Cart/checkout navigation failed: ">> \o desc
PlaceOrderMsg == ErrorPrefix \o <<" Place order button not found">>
PlaceOrderFailedMsg(desc) == ErrorPrefix \o <<" Failed to place order: ">> \o desc
NotDetectedMsg_AsError == ErrorPrefix \o <<" Order confirmation was not detected">>
NotDetectedMsg == <<"Order may have been placed, but confirmation was not detected">>
NotVerifiedMsg == <<"Order may have been placed, but confirmation could not be verified">>
SuccessMsg(text) == <<"Purchase flow executed successfully: ">> \o text
ExceptionMsg(desc) == ErrorPrefix \o <<" ">> \o desc

\* the test with > for >= (mutant)
attempts_exhausted_OffByOne(n) == n > max_attempts

\* the test with the returns inside the loop never taken (mutant)
attempts_exhausted_Never(n) == n > max_attempts + 1

\* if attempts >= max_attempts, after a failed attempt
attempts_exhausted(n) == n >= max_attempts

\* with sync_playwright() as p: browser = p.chromium.launch(headless=True)
Launch ==
  /\ pc = "launch"
  /\ playwright' = "running"
  /\ \E out \in {"ok", "error"} :
       IF out = "ok"
       THEN /\ browser' = "open"
            /\ launches' = launches + 1
            /\ pc' = "goto"
            /\ exc' = exc
       ELSE /\ browser' = browser
            /\ launches' = launches
            /\ pc' = "with_exit"
            /\ exc' = LaunchDesc
  /\ UNCHANGED <<inputVars, requestVars, closes, searchVars, idx, trace, last,
                 ret, result, messages, promptVars>>

\* page.goto(website_url) with its failure swallowed (mutant)
Goto_Swallowed ==
  /\ pc = "goto"
  /\ \E out \in Outcomes : Go("goto", out, "search")
  /\ UNCHANGED <<inputVars, requestVars, playwright, launches, searchVars, idx,
                 result, messages, promptVars>>

\* page.goto(website_url)
Goto ==
  /\ pc = "goto"
  /\ \E out \in Outcomes :
       IF out = "ok" THEN Go("goto", out, "search")
       ELSE Throw("goto", out, DescOf(out))
  /\ UNCHANGED <<inputVars, requestVars, playwright, launches, searchVars, idx,
                 result, messages, promptVars>>

P_Launch == variant = "prog" /\ Launch

P_Goto == variant = "prog" /\ Goto

\* the search loop counting only the passes that found links (mutant)
P_Search_FailuresUncounted ==
  /\ variant = "prog"
  /\ pc = "search"
  /\ IF attempts < max_attempts
     THEN \E out \in Outcomes :
            CASE out = "timeout" ->
                   /\ UNCHANGED <<attempts, links>>
                   /\ Go("search", out, "search")
              [] out = "error" ->
                   /\ UNCHANGED <<attempts, links>>
                   /\ Throw("search", out, DescOf(out))
              [] out = "ok" ->
                   \E found \in LinkLists :
                     /\ links' = found
                     /\ IF found = <<>>
                        THEN /\ attempts' = attempts
                             /\ Go("search", "empty", "search")
                        ELSE /\ attempts' = attempts + 1
                             /\ Go("search", out, "select")
     ELSE /\ UNCHANGED <<attempts, links>>
          /\ Flow("loop_exit", "none", "with_exit", exc, UnableToSelectMsg, TRUE)
  /\ UNCHANGED <<inputVars, requestVars, playwright, launches, clicked, idx,
                 result, messages, promptVars>>

\* one pass of the search loop up to the scan of the links
P_Search ==
  /\ variant = "prog"
  /\ pc = "search"
  /\ IF attempts < max_attempts
     THEN /\ attempts' = attempts + 1
          /\ \E out \in Outcomes :
               CASE out = "timeout" ->
                      /\ links' = links
                      /\ IF attempts_exhausted(attempts')
                         THEN CloseReturn("search", out, SearchFailedMsg)
                         ELSE Go("search", out, "search")
                 [] out = "error" ->
                      /\ links' = links
                      /\ Throw("search", out, DescOf(out))
                 [] out = "ok" ->
                      \E found \in LinkLists :
                        /\ links' = found
                        /\ IF found = <<>>
                           THEN IF attempts_exhausted(attempts')
                                THEN CloseReturn("search", "empty", NoProductsMsg)
                                ELSE Go("search", "empty", "search")
                           ELSE Go("search", out, "select")
     ELSE /\ UNCHANGED <<attempts, links>>
          /\ Flow("loop_exit", "none", "with_exit", exc, UnableToSelectMsg, TRUE)
  /\ UNCHANGED <<inputVars, requestVars, playwright, launches, clicked, idx,
                 result, messages, promptVars>>

\* the scan comparing the title as it is, without lower() (mutant)
exact_match_found_CaseSensitive(ls, name) ==
  LET hits == {i \in 1..Len(ls) : ls[i].readable /\ Strip(ls[i].title) = Lower(name)}
  IN IF hits = {} THEN 0 ELSE CHOOSE i \in hits : \A j \in hits : i <= j

\* the scan for an exact match: index of the first link whose text can be read
\* and whose stripped title equals the item name, case-insensitively (0: none)
exact_match_found(ls, name) ==
  LET hits == {i \in 1..Len(ls) :
                 ls[i].readable /\ Lower(Strip(ls[i].title)) = Lower(name)}
  IN IF hits = {} THEN 0 ELSE CHOOSE i \in hits : \A j \in hits : i <= j

\* the link the programmatic flow clicks
P_Target(ls, name) ==
  IF exact_match_found(ls, name) # 0 THEN exact_match_found(ls, name) ELSE 1

\* exact_match_found.click() or links[0].click()
P_Select ==
  /\ variant = "prog"
  /\ pc = "select"
  /\ clicked' = P_Target(links, item_name)
  /\ \E out \in Outcomes :
       IF out = "ok" THEN Go("click_link", out, "variant")
       ELSE Throw("click_link", out, DescOf(out))
  /\ idx' = 1
  /\ UNCHANGED <<inputVars, requestVars, playwright, launches, attempts, links,
                 result, messages, promptVars>>

\* the sub-steps with the racquet's tension step left out (mutant)
P_VariantSteps_NoTension(cat) ==
  CASE cat = Racquet -> <<"size", "string_type">>
    [] cat \in {Garment, Shoes} -> <<"size", "color">>
    [] OTHER -> <<"option1">>

\* the variant sub-steps of a category, in order: the key read and the
\* operation performed when the key is supplied
P_VariantSteps(cat) ==
  CASE cat = Racquet -> <<"size", "string_type", "string_tension">>
    [] cat \in {Garment, Shoes} -> <<"size", "color">>
    [] OTHER -> <<"option1">>

\* one variant sub-step: if variant_details.get(key): page.click / page.fill
P_Variant ==
  /\ variant = "prog"
  /\ pc = "variant"
  /\ LET steps == P_VariantSteps(category)
         key == steps[idx]
         nextpc == IF idx = Len(steps) THEN "add_to_cart" ELSE "variant"
     IN /\ idx' = IF idx = Len(steps) THEN 0 ELSE idx + 1
        /\ IF VariantSupplied(params["variant_details"], key)
           THEN \E out \in Outcomes :
                  IF out = "error" THEN Throw(key, out, DescOf(out))
                  ELSE Go(key, out, nextpc)
           ELSE Skip(nextpc)
  /\ UNCHANGED <<inputVars, requestVars, playwright, launches, searchVars,
                 result, messages, promptVars>>

\* add to cart with a control that is not found only passed over (mutant)
P_AddToCart_BestEffort ==
  /\ variant = "prog"
  /\ pc = "add_to_cart"
  /\ \E outs \in [1..2 -> Outcomes] :
       IF ChainTimeout(outs) = "error"
       THEN Throw("add_to_cart", "error", ErrorDesc)
       ELSE Go("add_to_cart", ChainTimeout(outs), "popup")
  /\ UNCHANGED <<inputVars, requestVars, playwright, launches, searchVars, idx,
                 result, messages, promptVars>>

\* page.click('#addToCartButton'), then 'button:has-text("Add to Cart")'
P_AddToCart ==
  /\ variant = "prog"
  /\ pc = "add_to_cart"
  /\ \E outs \in [1..2 -> Outcomes] :
       CASE ChainTimeout(outs) = "ok" -> Go("add_to_cart", "ok", "popup")
         [] ChainTimeout(outs) = "timeout" ->
              CloseReturn("add_to_cart", "timeout", AddToCartMsg)
         [] OTHER -> Throw("add_to_cart", "error", ErrorDesc)
  /\ UNCHANGED <<inputVars, requestVars, playwright, launches, searchVars, idx,
                 result, messages, promptVars>>

\* wait for 'button.close-popup' and click it; no pop-up is no error
P_Popup ==
  /\ variant = "prog"
  /\ pc = "popup"
  /\ \E out \in Outcomes :
       IF out = "error" THEN Throw("popup", out, ErrorDesc)
       ELSE Go("popup", out, "view_cart")
  /\ UNCHANGED <<inputVars, requestVars, playwright, launches, searchVars, idx,
                 result, messages, promptVars>>

\* the view-cart step with a missing control ending the stage (mutant)
P_ViewCart_Fatal ==
  /\ variant = "prog"
  /\ pc = "view_cart"
  /\ \E outs \in [1..2 -> Outcomes] :
       IF ChainTimeout(outs) = "ok"
       THEN Go("view_cart", "ok", "checkout")
       ELSE CloseReturn("view_cart", ChainTimeout(outs), CheckoutMsg)
  /\ UNCHANGED <<inputVars, requestVars, playwright, launches, searchVars, idx,
                 result, messages, promptVars>>

\* the view-cart control under its two selectors, inside try ... except Exception
P_ViewCart ==
  /\ variant = "prog"
  /\ pc = "view_cart"
  /\ \E outs \in [1..2 -> Outcomes] :
       IF ChainTimeout(outs) = "error"
       THEN CloseReturn("view_cart", "error", NavigationFailedMsg(ErrorDesc))
       ELSE Go("view_cart", ChainTimeout(outs), "checkout")
  /\ UNCHANGED <<inputVars, requestVars, playwright, launches, searchVars, idx,
                 result, messages, promptVars>>

\* the checkout step closing the browser and going on without return (mutant)
P_Checkout_NoReturn ==
  /\ variant = "prog"
  /\ pc = "checkout"
  /\ \E outs \in [1..2 -> Outcomes] :
       CASE ChainTimeout(outs) = "ok" -> Go("checkout", "ok", "shipping")
         [] ChainTimeout(outs) = "timeout" ->
              Flow("checkout", "timeout", "shipping", exc, ret, TRUE)
         [] OTHER ->
              CloseReturn("checkout", "error", NavigationFailedMsg(ErrorDesc))
  /\ idx' = 1
  /\ UNCHANGED <<inputVars, requestVars, playwright, launches, searchVars,
                 result, messages, promptVars>>

\* the checkout control under its two selectors, inside the same try
P_Checkout ==
  /\ variant = "prog"
  /\ pc = "checkout"
  /\ \E outs \in [1..2 -> Outcomes] :
       CASE ChainTimeout(outs) = "ok" -> Go("checkout", "ok", "shipping")
         [] ChainTimeout(outs) = "timeout" ->
              CloseReturn("checkout", "timeout", CheckoutMsg)
         [] OTHER ->
              CloseReturn("checkout", "error", NavigationFailedMsg(ErrorDesc))
  /\ idx' = 1
  /\ UNCHANGED <<inputVars, requestVars, playwright, launches, searchVars,
                 result, messages, promptVars>>

\* the shipping form: each field, the number of selectors tried for it, and
\* whether its last selector is tried outside any inner try (so that its
\* failure leaves the whole block through "except Exception")
P_ShippingFields ==
  << [name |-> "first_name", selectors |-> 3, guarded |-> FALSE],
     [name |-> "last_name", selectors |-> 3, guarded |-> FALSE],
     [name |-> "email", selectors |-> 3, guarded |-> FALSE],
     [name |-> "phone", selectors |-> 3, guarded |-> FALSE],
     [name |-> "address", selectors |-> 3, guarded |-> FALSE],
     [name |-> "city", selectors |-> 3, guarded |-> FALSE],
     [name |-> "state", selectors |-> 4, guarded |-> TRUE],
     [name |-> "postal_code", selectors |-> 4, guarded |-> TRUE],
     [name |-> "country", selectors |-> 2, guarded |-> TRUE] >>

\* a field that matches no selector raising out of the flow (mutant)
FormField_Fatal(fields, stage, after) ==
  LET f == fields[idx]
      isLast == idx = Len(fields)
  IN \E outs \in [1..f.selectors -> Outcomes] :
       IF ChainAny(outs) = "ok"
       THEN /\ Go(f.name, "ok", IF isLast THEN after ELSE stage)
            /\ idx' = IF isLast THEN 0 ELSE idx + 1
       ELSE /\ Throw(f.name, "none", TimeoutDesc)
            /\ idx' = 0

\* one field of a form block: the field's selector chain; a field that matches
\* no selector ends the block when its last selector is unguarded
FormField(fields, stage, after) ==
  LET f == fields[idx]
      isLast == idx = Len(fields)
  IN \E outs \in [1..f.selectors -> Outcomes] :
       IF ChainAny(outs) = "ok" \/ f.guarded
       THEN /\ Go(f.name, ChainAny(outs), IF isLast THEN after ELSE stage)
            /\ idx' = IF isLast THEN 0 ELSE idx + 1
       ELSE /\ Go(f.name, "none", after)
            /\ idx' = 0

\* the shipping block, one field per step
P_Shipping ==
  /\ variant = "prog"
  /\ pc = "shipping"
  /\ FormField(P_ShippingFields, "shipping", "coupon")
  /\ UNCHANGED <<inputVars, requestVars, playwright, launches, searchVars,
                 result, messages, promptVars>>

\* if coupon_code: fill and apply under two selector pairs, every failure caught
P_Coupon ==
  /\ variant = "prog"
  /\ pc = "coupon"
  /\ IF Truthy(params["coupon_code"])
     THEN \E outs \in [1..2 -> Outcomes] :
            Go("coupon", ChainAny(outs), "shipping_option")
     ELSE Skip("shipping_option")
  /\ UNCHANGED <<inputVars, requestVars, playwright, launches, searchVars, idx,
                 result, messages, promptVars>>

\* if shipping_option: page.click(text), only a timeout is caught
P_ShippingOption ==
  /\ variant = "prog"
  /\ pc = "shipping_option"
  /\ IF Truthy(params["shipping_option"])
     THEN \E out \in Outcomes :
            IF out = "error" THEN Throw("shipping_option", out, ErrorDesc)
            ELSE Go("shipping_option", out, "gift")
     ELSE Skip("gift")
  /\ UNCHANGED <<inputVars, requestVars, playwright, launches, searchVars, idx,
                 result, messages, promptVars>>

\* if gift_wrapping_message: click and fill, only a timeout is caught
P_Gift ==
  /\ variant = "prog"
  /\ pc = "gift"
  /\ IF Truthy(params["gift_wrapping_message"])
     THEN \E out \in Outcomes :
            IF out = "error" THEN Throw("gift", out, ErrorDesc)
            ELSE Go("gift", out, "proceed")
     ELSE Skip("proceed")
  /\ UNCHANGED <<inputVars, requestVars, playwright, launches, searchVars, idx,
                 result, messages, promptVars>>

\* continue-to-payment under three selectors, inside try ... except Exception
P_Proceed ==
  /\ variant = "prog"
  /\ pc = "proceed"
  /\ \E outs \in [1..3 -> Outcomes] :
       Go("proceed", ChainTimeout(outs), "payment")
  /\ idx' = 1
  /\ UNCHANGED <<inputVars, requestVars, playwright, launches, searchVars,
                 result, messages, promptVars>>

\* str.split(sep): the number of parts
RECURSIVE SplitParts(_, _)
SplitParts(s, sep) ==
  IF s = <<>> THEN 1
  ELSE (IF Head(s) = sep THEN 1 ELSE 0) + SplitParts(Tail(s), sep)

\* selectors tried for the expiration: three for the combined field, then the
\* month/year pair when the value splits in two at "/"
ExpirationSelectors(expiration) ==
  IF SplitParts(expiration, "/") = 2 THEN 4 ELSE 3

\* the payment form; the billing address only when it differs from the address
P_PaymentFields(p) ==
  << [name |-> "card_number", selectors |-> 3, guarded |-> FALSE],
     [name |-> "card_expiration",
      selectors |-> ExpirationSelectors(p["card_expiration"]), guarded |-> TRUE],
     [name |-> "card_cvv", selectors |-> 3, guarded |-> FALSE] >>
  \o (IF p["billing_address"] # <<>> /\ p["billing_address"] # p["address"]
      THEN << [name |-> "billing_address", selectors |-> 2, guarded |-> TRUE] >>
      ELSE << >>)

\* the payment block, one field per step
P_Payment ==
  /\ variant = "prog"
  /\ pc = "payment"
  /\ FormField(P_PaymentFields(params), "payment", "place_order")
  /\ UNCHANGED <<inputVars, requestVars, playwright, launches, searchVars,
                 result, messages, promptVars>>

\* place order under three selectors, inside try ... except Exception
P_PlaceOrder ==
  /\ variant = "prog"
  /\ pc = "place_order"
  /\ \E outs \in [1..3 -> Outcomes] :
       CASE ChainTimeout(outs) = "ok" -> Go("place_order", "ok", "confirm")
         [] ChainTimeout(outs) = "timeout" ->
              CloseReturn("place_order", "timeout", PlaceOrderMsg)
         [] OTHER ->
              CloseReturn("place_order", "error", PlaceOrderFailedMsg(ErrorDesc))
  /\ UNCHANGED <<inputVars, requestVars, playwright, launches, searchVars, idx,
                 result, messages, promptVars>>

\* the text read from '.order-confirmation'
PageConfirmationText == <<"Order #1 confirmed">>

\* confirmation_text by the selector that detected the confirmation
P_ConfirmationText(i) ==
  CASE i = 1 -> PageConfirmationText
    [] i = 2 -> <<"Order placed successfully">>
    [] OTHER -> <<"Order confirmed">>

\* wait for the confirmation element, then for either confirmation text
P_Confirm ==
  /\ variant = "prog"
  /\ pc = "confirm"
  /\ \E outs \in [1..3 -> Outcomes] :
       CASE ChainTimeout(outs) = "ok" ->
              CloseReturn("confirm", "ok",
                          SuccessMsg(P_ConfirmationText(ChainIndex(outs))))
         [] ChainTimeout(outs) = "timeout" ->
              CloseReturn("confirm", "timeout", NotDetectedMsg)
         [] OTHER -> CloseReturn("confirm", "error", NotVerifiedMsg)
  /\ UNCHANGED <<inputVars, requestVars, playwright, launches, searchVars, idx,
                 result, messages, promptVars>>

\* leaving the block with the browser left as it is (mutant)
WithExit_Leak ==
  /\ pc = "with_exit"
  /\ playwright' = "stopped"
  /\ browser' = browser
  /\ IF exc # <<>>
     THEN /\ pc' = "except"
          /\ result' = result
     ELSE /\ pc' = IF variant = "prog" THEN "emit" ELSE "done"
          /\ result' = ret
  /\ UNCHANGED <<inputVars, requestVars, launches, closes, searchVars, idx,
                 trace, last, exc, ret, messages, promptVars>>

\* leaving the with block, by return or by exception: Playwright stops and
\* takes down a browser that is still open
WithExit ==
  /\ pc = "with_exit"
  /\ playwright' = "stopped"
  /\ browser' = IF browser = "open" THEN "killed" ELSE browser
  /\ IF exc # <<>>
     THEN /\ pc' = "except"
          /\ result' = result
     ELSE /\ pc' = IF variant = "prog" THEN "emit" ELSE "done"
          /\ result' = ret
  /\ UNCHANGED <<inputVars, requestVars, launches, closes, searchVars, idx,
                 trace, last, exc, ret, messages, promptVars>>

\* except Exception as e: return f"Error: {str(e)}"
Except ==
  /\ pc = "except"
  /\ result' = ExceptionMsg(exc)
  /\ pc' = IF variant = "prog" THEN "emit" ELSE "done"
  /\ UNCHANGED <<inputVars, requestVars, playwright, browser, launches, closes,
                 searchVars, idx, trace, last, exc, ret, messages, promptVars>>

P_WithExit == variant = "prog" /\ WithExit

P_Except == variant = "prog" /\ Except

(* --------------- dify_headless_purchase_flow: the prompts -------------- *)
AttributeErrorDesc == <<"'NoneType' object has no attribute 'lower'">>

\* get_user_input: the stripped entry, or the default when the entry is empty
get_user_input(typed, default) ==
  IF typed # <<>> THEN S(Strip(typed)) ELSE default

\* what the operator may type for a product name, a category, a selection
NameEntries == { <<>>, ItemEntry, <<"A","B","C">> }
CategoryEntries ==
  { <<>>, <<" ">> } \cup { c.v : c \in (RawCategories \cup ValidRawCategories) \ {NoneV, Absent} }
SelectionEntries ==
  { <<>>, <<" ">>, <<"0">>, <<"1">>, <<" ","2">>, <<"3">>, <<"4">>, <<"x">> }

\* an exception outside the try block ends the script without a result
Crash(desc) ==
  /\ pc' = "crashed"
  /\ exc' = desc

\* item_name = get_user_input("Enter the exact product name: ").lower()
I_PromptItem ==
  /\ variant = "inter"
  /\ pc = "prompt_item"
  /\ \E typed \in NameEntries :
       LET got == get_user_input(typed, NoneV) IN
       IF got.k = "none"
       THEN Crash(AttributeErrorDesc) /\ item_name' = item_name
       ELSE /\ item_name' = Lower(got.v)
            /\ pc' = "prompt_category"
            /\ exc' = exc
  /\ UNCHANGED <<inputVars, category, params, playwright, browser, launches,
                 closes, searchVars, idx, trace, last, ret, result, messages,
                 promptVars>>

\* category = get_user_input(...).lower(), asked again while it is not valid
I_PromptCategory ==
  /\ variant = "inter"
  /\ pc = "prompt_category"
  /\ \E typed \in CategoryEntries :
       LET got == get_user_input(typed, NoneV) IN
       IF got.k = "none"
       THEN /\ Crash(AttributeErrorDesc)
            /\ UNCHANGED <<category, prompts>>
       ELSE /\ category' = Lower(got.v)
            /\ exc' = exc
            /\ IF category_valid(category')
               THEN pc' = "prompt_details" /\ prompts' = 0
               ELSE /\ prompts < MaxPrompts
                    /\ pc' = "prompt_category"
                    /\ prompts' = prompts + 1
  /\ UNCHANGED <<inputVars, item_name, params, playwright, browser, launches,
                 closes, searchVars, idx, trace, last, ret, result, messages,
                 entry>>

\* the prompts after the category, by the key their answer is stored under
I_VariantPrompts(cat, answers) ==
  CASE cat = Racquet -> <<"size", "string_type", "string_name", "string_tension">>
    [] cat \in {Garment, Shoes} -> <<"size", "color">>
    [] OTHER ->
         <<"need_variant">>
           \o (IF StartsWith(Lower(Strip(answers["need_variant"])), <<"y">>)
               THEN <<"option1">> ELSE << >>)

I_ShippingPrompts ==
  <<"first_name", "last_name", "email", "phone", "address", "city", "state",
    "postal_code", "country">>

I_PaymentPrompts == <<"card_number", "card_expiration", "card_cvv", "billing_address">>

\* a yes/no question and the prompt that follows a yes
I_ExtraPrompts(answers, response, key) ==
  <<response>>
    \o (IF StartsWith(Lower(Strip(answers[response])), <<"y">>) THEN <<key>> ELSE << >>)

\* every prompt asked for a category and a sheet of answers, in order
I_PromptsAsked(cat, answers) ==
  I_VariantPrompts(cat, answers) \o I_ShippingPrompts \o I_PaymentPrompts
    \o I_ExtraPrompts(answers, "coupon_response", "coupon_code")
    \o I_ExtraPrompts(answers, "shipping_response", "shipping_option")
    \o I_ExtraPrompts(answers, "gift_wrapping_response", "gift_wrapping_message")

\* read through getpass: no method is called on the entry
I_MaskedPrompts == {"card_number", "card_cvv"}

I_PromptKeys ==
  { "size", "string_type", "string_name", "string_tension", "color",
    "need_variant", "option1", "coupon_response", "coupon_code",
    "shipping_response", "shipping_option", "gift_wrapping_response",
    "gift_wrapping_message" }
  \cup Range(I_ShippingPrompts) \cup Range(I_PaymentPrompts)

No == <<"n","o">>
Yes == <<"Y","e","s">>

\* every prompt answered, no extra asked for, billing address as the address
BaseAnswers ==
  [k \in I_PromptKeys |->
     CASE k \in {"need_variant", "coupon_response", "shipping_response",
                 "gift_wrapping_response"} -> No
       [] k = "card_expiration" -> Expiration
       [] OTHER -> X]

\* every extra asked for, another billing address
FullAnswers ==
  [k \in I_PromptKeys |->
     CASE k \in {"need_variant", "coupon_response", "shipping_response",
                 "gift_wrapping_response"} -> Yes
       [] k = "card_expiration" -> Expiration
       [] k = "billing_address" -> <<"y">>
       [] OTHER -> X]

\* the sheets of answers the operator may give: complete ones, and each of
\* them with one prompt answered by Enter alone
AnswerSheets ==
  {BaseAnswers, FullAnswers}
  \cup { [a EXCEPT ![k] = <<>>] :
           a \in {BaseAnswers, FullAnswers}, k \in I_PromptKeys \ I_MaskedPrompts }

\* the request the answers make
I_Params(cat, answers) ==
  LET asked == Range(I_PromptsAsked(cat, answers))
      val(k) == Strip(answers[k])
  IN [k \in (Range(required_fields) \cup Range(optional_fields) \cup {"country"}) |->
        CASE k = "variant_details" ->
               Dict([j \in asked \cap {"size", "string_type", "string_name",
                                        "string_tension", "color", "option1"} |->
                       IF j = "string_type" THEN Lower(val(j)) ELSE val(j)])
          [] k \in I_MaskedPrompts -> answers[k]
          [] k = "country" ->
               IF val(k) # <<>> THEN val(k) ELSE <<"United States">>
          [] k = "billing_address" ->
               IF val(k) # <<>> THEN val(k) ELSE val("address")
          [] k \in {"coupon_code", "shipping_option", "gift_wrapping_message"} ->
               IF k \in asked THEN S(val(k)) ELSE NoneV
          [] OTHER -> val(k)]

\* the prompts from the variant details to the gift wrapping: a method call on
\* the None that an empty entry gives ends the script
I_PromptDetails ==
  /\ variant = "inter"
  /\ pc = "prompt_details"
  /\ \E answers \in AnswerSheets :
       LET asked == Range(I_PromptsAsked(category, answers)) \ I_MaskedPrompts IN
       IF \E k \in asked : get_user_input(answers[k], NoneV).k = "none"
       THEN Crash(AttributeErrorDesc) /\ params' = params
       ELSE /\ params' = I_Params(category, answers)
            /\ pc' = "launch"
            /\ exc' = exc
  /\ UNCHANGED <<inputVars, item_name, category, playwright, browser, launches,
                 closes, searchVars, idx, trace, last, ret, result, messages,
                 promptVars>>

I_Launch == variant = "inter" /\ Launch

I_Goto == variant = "inter" /\ Goto

I_WithExit == variant = "inter" /\ WithExit

I_Except == variant = "inter" /\ Except

(* ------------ dify_headless_purchase_flow: browser automation ---------- *)
I_AddToCartMsg == ErrorPrefix \o <<" Add to Cart Failed">>
I_CheckoutMsg == ErrorPrefix \o <<" Checkout Navigation Failed">>
I_ProceedMsg == ErrorPrefix \o <<" Unable to proceed to payment">>
I_PlaceOrderMsg == ErrorPrefix \o <<" Order Placement Failed">>
I_SuccessMsg ==
  <<"Purchase flow executed successfully (please verify your order on the website).">>

Digits == <<"0","1","2","3","4","5","6","7","8","9">>
IsDigit(c) == \E i \in 1..Len(Digits) : Digits[i] = c
DigitValue(c) == (CHOOSE i \in 1..Len(Digits) : Digits[i] = c) - 1

RECURSIVE DigitsValue(_)
DigitsValue(s) ==
  IF s = <<>> THEN 0
  ELSE DigitsValue(SubSeq(s, 1, Len(s) - 1)) * 10 + DigitValue(s[Len(s)])

\* int(s) raises ValueError unless s is an optional sign and digits
IsInt(s) ==
  LET body == IF s # <<>> /\ Head(s) \in {"-", "+"} THEN Tail(s) ELSE s
  IN body # <<>> /\ \A i \in 1..Len(body) : IsDigit(body[i])

\* int(s)
IntValue(s) ==
  IF Head(s) = "-" THEN 0 - DigitsValue(Tail(s))
  ELSE IF Head(s) = "+" THEN DigitsValue(Tail(s))
  ELSE DigitsValue(s)

\* one pass of the search loop up to the scan of the links: fill and press
\* outside any inner try, the wait inside one
I_Search ==
  /\ variant = "inter"
  /\ pc = "search"
  /\ \E submit \in Outcomes :
       IF submit # "ok"
       THEN /\ Throw("search", submit, DescOf(submit))
            /\ links' = links
       ELSE \E wait \in Outcomes :
              CASE wait = "timeout" ->
                     /\ prompts < MaxPrompts
                     /\ links' = links
                     /\ Go("search", wait, "prompt_name")
                [] wait = "error" ->
                     /\ links' = links
                     /\ Throw("search", wait, DescOf(wait))
                [] wait = "ok" ->
                     \E found \in LinkLists :
                       /\ links' = found
                       /\ IF found = <<>>
                          THEN /\ prompts < MaxPrompts
                               /\ Go("search", "empty", "prompt_name")
                          ELSE Go("search", wait, "select")
  /\ UNCHANGED <<inputVars, requestVars, playwright, launches, attempts, clicked,
                 idx, result, messages, promptVars>>

\* item_name = get_user_input("... Enter a new product name: ").lower()
I_PromptName ==
  /\ variant = "inter"
  /\ pc = "prompt_name"
  /\ \E typed \in NameEntries :
       LET got == get_user_input(typed, NoneV) IN
       /\ entry' = typed
       /\ IF got.k = "none"
          THEN /\ exc' = AttributeErrorDesc
               /\ pc' = "with_exit"
               /\ UNCHANGED <<item_name, prompts>>
          ELSE /\ item_name' = Lower(got.v)
               /\ prompts' = prompts + 1
               /\ pc' = "search"
               /\ exc' = exc
  /\ UNCHANGED <<inputVars, category, params, playwright, browser, launches,
                 closes, searchVars, idx, trace, last, ret, result, messages>>

\* the scan for an exact match and, without one, the operator's choice
I_Select ==
  /\ variant = "inter"
  /\ pc = "select"
  /\ IF exact_match_found(links, item_name) # 0
     THEN /\ clicked' = exact_match_found(links, item_name)
          /\ UNCHANGED promptVars
          /\ \E out \in Outcomes :
               IF out = "ok" THEN Go("click_link", out, "variant")
               ELSE Throw("click_link", out, DescOf(out))
     ELSE \E selection \in SelectionEntries :
            LET got == get_user_input(selection, NoneV) IN
            /\ entry' = selection
            /\ IF got.k = "none" \/ got.v = <<>>
               THEN /\ prompts < MaxPrompts
                    /\ Skip("prompt_name")
                    /\ UNCHANGED <<clicked, prompts>>
               ELSE IF IsInt(got.v) /\ IntValue(got.v) - 1 >= 0
                       /\ IntValue(got.v) - 1 < Len(links)
               THEN /\ clicked' = IntValue(got.v)
                    /\ prompts' = prompts
                    /\ \E out \in Outcomes :
                         IF out = "ok" THEN Go("click_link", out, "variant")
                         ELSE Throw("click_link", out, DescOf(out))
               ELSE /\ prompts < MaxPrompts
                    /\ prompts' = prompts + 1
                    /\ clicked' = clicked
                    /\ Skip("search")
  /\ idx' = 1
  /\ UNCHANGED <<inputVars, requestVars, playwright, launches, attempts, links,
                 result, messages>>

\* the variant sub-steps of a category: the key, and whether the step is
\* attempted only when the key is supplied
I_VariantSteps(cat) ==
  CASE cat = Racquet ->
         << [key |-> "size", optional |-> FALSE],
            [key |-> "string_type", optional |-> FALSE],
            [key |-> "string_tension", optional |-> FALSE] >>
    [] cat \in {Garment, Shoes} -> << [key |-> "size", optional |-> FALSE] >>
    [] OTHER -> << [key |-> "option1", optional |-> TRUE] >>

\* one variant sub-step: only a timeout is caught
I_Variant ==
  /\ variant = "inter"
  /\ pc = "variant"
  /\ LET steps == I_VariantSteps(category)
         step == steps[idx]
         nextpc == IF idx = Len(steps) THEN "add_to_cart" ELSE "variant"
     IN /\ idx' = IF idx = Len(steps) THEN 0 ELSE idx + 1
        /\ IF step.optional => VariantSupplied(params["variant_details"], step.key)
           THEN \E out \in Outcomes :
                  IF out = "error" THEN Throw(step.key, out, DescOf(out))
                  ELSE Go(step.key, out, nextpc)
           ELSE Skip(nextpc)
  /\ UNCHANGED <<inputVars, requestVars, playwright, launches, searchVars,
                 result, messages, promptVars>>

\* a required control under its one selector: a timeout ends the flow with msg
I_Required(op, msg, nextpc) ==
  \E out \in Outcomes :
    CASE out = "ok" -> Go(op, out, nextpc)
      [] out = "timeout" -> CloseReturn(op, out, msg)
      [] OTHER -> Throw(op, out, DescOf(out))

\* page.click('#addToCartButton')
I_AddToCart ==
  /\ variant = "inter"
  /\ pc = "add_to_cart"
  /\ I_Required("add_to_cart", I_AddToCartMsg, "popup")
  /\ UNCHANGED <<inputVars, requestVars, playwright, launches, searchVars, idx,
                 result, messages, promptVars>>

\* wait for 'button.close-popup' and click it; no pop-up is no error
I_Popup ==
  /\ variant = "inter"
  /\ pc = "popup"
  /\ \E out \in Outcomes :
       IF out = "error" THEN Throw("popup", out, ErrorDesc)
       ELSE Go("popup", out, "view_cart")
  /\ UNCHANGED <<inputVars, requestVars, playwright, launches, searchVars, idx,
                 result, messages, promptVars>>

\* wait for the view-cart link and click it
I_ViewCart ==
  /\ variant = "inter"
  /\ pc = "view_cart"
  /\ I_Required("view_cart", I_CheckoutMsg, "checkout")
  /\ UNCHANGED <<inputVars, requestVars, playwright, launches, searchVars, idx,
                 result, messages, promptVars>>

\* wait for the checkout link and click it, in the same try block
I_Checkout ==
  /\ variant = "inter"
  /\ pc = "checkout"
  /\ I_Required("checkout", I_CheckoutMsg, "shipping")
  /\ idx' = 1
  /\ UNCHANGED <<inputVars, requestVars, playwright, launches, searchVars,
                 result, messages, promptVars>>

\* the shipping form: each field, the selectors tried for it (a timeout moves
\* to the next one) and whether a timeout of the last one is caught
I_ShippingFields ==
  << [name |-> "first_name", selectors |-> 1, guarded |-> FALSE],
     [name |-> "last_name", selectors |-> 1, guarded |-> FALSE],
     [name |-> "email", selectors |-> 1, guarded |-> FALSE],
     [name |-> "phone", selectors |-> 1, guarded |-> FALSE],
     [name |-> "address", selectors |-> 1, guarded |-> FALSE],
     [name |-> "city", selectors |-> 1, guarded |-> FALSE],
     [name |-> "state", selectors |-> 2, guarded |-> FALSE],
     [name |-> "postal_code", selectors |-> 1, guarded |-> FALSE],
     [name |-> "country", selectors |-> 1, guarded |-> TRUE] >>

\* one field of a form: nothing but a guarded timeout is caught
I_FormField(fields, stage, after) ==
  LET f == fields[idx]
      nextpc == IF idx = Len(fields) THEN after ELSE stage
  IN \E outs \in [1..f.selectors -> Outcomes] :
       /\ idx' = IF idx = Len(fields) THEN 0 ELSE idx + 1
       /\ CASE ChainTimeout(outs) = "ok" -> Go(f.name, "ok", nextpc)
            [] ChainTimeout(outs) = "timeout" ->
                 IF f.guarded THEN Go(f.name, "timeout", nextpc)
                 ELSE Throw(f.name, "timeout", TimeoutDesc)
            [] OTHER -> Throw(f.name, "error", ErrorDesc)

\* the shipping form, one field per step
I_Shipping ==
  /\ variant = "inter"
  /\ pc = "shipping"
  /\ I_FormField(I_ShippingFields, "shipping", "coupon")
  /\ UNCHANGED <<inputVars, requestVars, playwright, launches, searchVars,
                 result, messages, promptVars>>

\* an optional step inside try ... except PlaywrightTimeoutError
OptionalStep(op, supplied, nextpc) ==
  IF supplied
  THEN \E out \in Outcomes :
         IF out = "error" THEN Throw(op, out, ErrorDesc)
         ELSE Go(op, out, nextpc)
  ELSE Skip(nextpc)

\* if coupon_code: fill, apply, wait for '.coupon-success'
I_Coupon ==
  /\ variant = "inter"
  /\ pc = "coupon"
  /\ OptionalStep("coupon", Truthy(params["coupon_code"]), "shipping_option")
  /\ UNCHANGED <<inputVars, requestVars, playwright, launches, searchVars, idx,
                 result, messages, promptVars>>

\* if shipping_option: page.click(text)
I_ShippingOption ==
  /\ variant = "inter"
  /\ pc = "shipping_option"
  /\ OptionalStep("shipping_option", Truthy(params["shipping_option"]), "gift")
  /\ UNCHANGED <<inputVars, requestVars, playwright, launches, searchVars, idx,
                 result, messages, promptVars>>

\* if gift_wrapping_message: click and fill
I_Gift ==
  /\ variant = "inter"
  /\ pc = "gift"
  /\ OptionalStep("gift", Truthy(params["gift_wrapping_message"]), "proceed")
  /\ UNCHANGED <<inputVars, requestVars, playwright, launches, searchVars, idx,
                 result, messages, promptVars>>

\* page.click('#continueToPayment')
I_Proceed ==
  /\ variant = "inter"
  /\ pc = "proceed"
  /\ I_Required("proceed", I_ProceedMsg, "payment")
  /\ idx' = 1
  /\ UNCHANGED <<inputVars, requestVars, playwright, launches, searchVars,
                 result, messages, promptVars>>

\* the payment form; the billing address only when it differs from the address
I_PaymentFields(p) ==
  << [name |-> "card_number", selectors |-> 1, guarded |-> FALSE],
     [name |-> "card_expiration", selectors |-> 1, guarded |-> FALSE],
     [name |-> "card_cvv", selectors |-> 1, guarded |-> FALSE] >>
  \o (IF p["billing_address"] # <<>> /\ p["billing_address"] # p["address"]
      THEN << [name |-> "billing_address", selectors |-> 1, guarded |-> FALSE] >>
      ELSE << >>)

\* the payment form, one field per step
I_Payment ==
  /\ variant = "inter"
  /\ pc = "payment"
  /\ I_FormField(I_PaymentFields(params), "payment", "place_order")
  /\ UNCHANGED <<inputVars, requestVars, playwright, launches, searchVars,
                 result, messages, promptVars>>

\* page.click('#placeOrderButton')
I_PlaceOrder ==
  /\ variant = "inter"
  /\ pc = "place_order"
  /\ I_Required("place_order", I_PlaceOrderMsg, "confirm")
  /\ UNCHANGED <<inputVars, requestVars, playwright, launches, searchVars, idx,
                 result, messages, promptVars>>

\* wait for '.order-confirmation' and read it; a timeout is logged; then
\* browser.close() and the success message
I_Confirm ==
  /\ variant = "inter"
  /\ pc = "confirm"
  /\ \E out \in Outcomes :
       IF out = "error" THEN Throw("confirm", out, ErrorDesc)
       ELSE CloseReturn("confirm", out, I_SuccessMsg)
  /\ UNCHANGED <<inputVars, requestVars, playwright, launches, searchVars, idx,
                 result, messages, promptVars>>

(* --------------------------- specification ----------------------------- *)
Next ==
  \/ Invoke
  \/ InvokeResult
  \/ P_Launch
  \/ P_Goto
  \/ P_Search
  \/ P_Select
  \/ P_Variant
  \/ P_AddToCart
  \/ P_Popup
  \/ P_ViewCart
  \/ P_Checkout
  \/ P_Shipping
  \/ P_Coupon
  \/ P_ShippingOption
  \/ P_Gift
  \/ P_Proceed
  \/ P_Payment
  \/ P_PlaceOrder
  \/ P_Confirm
  \/ P_WithExit
  \/ P_Except
  \/ I_PromptItem
  \/ I_PromptCategory
  \/ I_PromptDetails
  \/ I_Launch
  \/ I_Goto
  \/ I_Search
  \/ I_PromptName
  \/ I_Select
  \/ I_Variant
  \/ I_AddToCart
  \/ I_Popup
  \/ I_ViewCart
  \/ I_Checkout
  \/ I_Shipping
  \/ I_Coupon
  \/ I_ShippingOption
  \/ I_Gift
  \/ I_Proceed
  \/ I_Payment
  \/ I_PlaceOrder
  \/ I_Confirm
  \/ I_WithExit
  \/ I_Except

Spec == Init /\ [][Next]_vars

\* PurchaseFlowTool alone: one invocation of _invoke running to its end
ProgInit == Init /\ variant = "prog"

ProgNext ==
  \/ Invoke
  \/ InvokeResult
  \/ P_Launch
  \/ P_Goto
  \/ P_Search
  \/ P_Select
  \/ P_Variant
  \/ P_AddToCart
  \/ P_Popup
  \/ P_ViewCart
  \/ P_Checkout
  \/ P_Shipping
  \/ P_Coupon
  \/ P_ShippingOption
  \/ P_Gift
  \/ P_Proceed
  \/ P_Payment
  \/ P_PlaceOrder
  \/ P_Confirm
  \/ P_WithExit
  \/ P_Except

\* the interpreter runs the one thread of the invocation for as long as it
\* has a statement to execute, and every page operation ends
ProgLive == ProgInit /\ [][ProgNext]_vars /\ WF_vars(ProgNext)

(* ------------------------------ claims --------------------------------- *)
\* the category of the mapping after str(), lower() and strip()
InputCategory == Strip(Lower(Str(Get(tool_parameters, "category", S(<<>>)))))

InputCategoryInvalid ==
  \A i \in 1..Len(PRODUCT_CATEGORIES) : InputCategory # PRODUCT_CATEGORIES[i]

NoBrowserUse ==
  /\ launches = 0
  /\ browser = "none"
  /\ playwright = "none"
  /\ trace = <<>>

\* C1: a mapping whose category, lower-cased and trimmed, is none of the four
\* categories gets one text message that reports the invalid category, and the
\* invocation ends with no browser launched and no page operation performed.
C1_InvalidCategoryRejected ==
  (variant = "prog" /\ pc # "invoke" /\ InputCategoryInvalid) =>
    /\ pc = "done"
    /\ Len(messages) = 1
    /\ messages[1].type = "text"
    /\ StartsWith(messages[1].text,
                  <<"Invalid category '">> \o InputCategory \o <<"'. Valid categories are: ">>)
    /\ NoBrowserUse

C1_Witness ==
  /\ variant = "prog"
  /\ pc = "done"
  /\ tool_parameters["category"] = S(<<"r","a","c","q","u","e","t","s">>)
  /\ Len(messages) = 1

IsBlank(s) == \A i \in 1..Len(s) : s[i] \in Whitespace

\* the required fields the mapping does not supply: absent, or a string that
\* is empty or all white space
InputMissing ==
  { f \in Range(required_fields) :
      \/ tool_parameters[f].k = "absent"
      \/ tool_parameters[f].k = "str" /\ IsBlank(tool_parameters[f].v) }

\* C2: with a valid category and some required field missing, the one message
\* emitted names exactly the missing required fields, and no browser is
\* launched.
C2_MissingFieldsReported ==
  (variant = "prog" /\ pc # "invoke" /\ ~InputCategoryInvalid /\ InputMissing # {}) =>
    /\ pc = "done"
    /\ Len(messages) = 1
    /\ messages[1].type = "text"
    /\ StartsWith(messages[1].text, <<"Missing required fields: ">>)
    /\ Range(messages[1].text) \cap Range(required_fields) = InputMissing
    /\ NoBrowserUse

C2_Witness ==
  /\ variant = "prog"
  /\ pc = "done"
  /\ ~InputCategoryInvalid
  /\ InputMissing = {"email", "card_cvv"}
  /\ tool_parameters["email"] = S(<<" ">>)
  /\ Len(messages) = 1

\* what the flow returns on a fatal step failure (search exhausted, add to
\* cart, checkout navigation, place order) or from the confirmation stage
StageResults ==
  { ErrorPrefix \o <<" Product search failed after multiple attempts">>,
    ErrorPrefix \o <<" No products found matching the search criteria">>,
    ErrorPrefix \o <<" Add to Cart button not found">>,
    ErrorPrefix \o <<" Checkout button not found">>,
    ErrorPrefix \o <<" Cart/checkout navigation failed: ">> \o ErrorDesc,
    ErrorPrefix \o <<" Place order button not found">>,
    ErrorPrefix \o <<" Failed to place order: ">> \o ErrorDesc,
    <<"Order may have been placed, but confirmation was not detected">>,
    <<"Order may have been placed, but confirmation could not be verified">>,
    ErrorPrefix \o <<" Add to Cart Failed">>,
    ErrorPrefix \o <<" Checkout Navigation Failed">>,
    ErrorPrefix \o <<" Order Placement Failed">>,
    <<"Purchase flow executed successfully (please verify your order on the website).">> }
  \cup { <<"Purchase flow executed successfully: ">> \o P_ConfirmationText(i) : i \in 1..3 }

\* C3: in both variants, when the flow returns from a fatal step failure or
\* from the confirmation stage, browser.close() has been called on the
\* launched browser before the value is returned.
C3_ClosedBeforeReturn ==
  (ret \in StageResults \/ result \in StageResults) =>
    /\ launches = 1
    /\ browser = "closed"
    /\ closes = 1

C3_Witness ==
  /\ pc = "done"
  /\ result \in { ErrorPrefix \o <<" Checkout button not found">>,
                  ErrorPrefix \o <<" Checkout Navigation Failed">> }
  /\ browser = "closed"

\* C4: programmatic variant: when an exception leaves the with block after the
\* browser was launched, the browser is no longer open when the handler builds
\* the Error result, nor afterwards.
C4_ReleasedOnException ==
  (variant = "prog" /\ launches > 0 /\ exc # <<>> /\ pc \in {"except", "emit", "done"}) =>
    /\ browser \in {"closed", "killed"}
    /\ playwright = "stopped"
    /\ (pc # "except" => result = ErrorPrefix \o <<" ">> \o exc)

C4_Witness ==
  /\ variant = "prog"
  /\ pc = "done"
  /\ last = [op |-> "goto", out |-> "timeout"]
  /\ exc = TimeoutDesc
  /\ browser = "killed"

\* a link whose text can be read and whose trimmed title is the item name,
\* case-insensitively
IsExactMatch(link, name) ==
  link.readable /\ Lower(Strip(link.title)) = Lower(name)

\* C5: in both variants, when the result list holds an exactly matching link,
\* the selection step clicks such a link: never another link, and never
\* without a click (no first-result fallback, no operator choice).
C5_ExactMatchClicked ==
  [][ (pc = "select" /\ \E i \in 1..Len(links) : IsExactMatch(links[i], item_name)) =>
        /\ last'.op = "click_link"
        /\ Len(trace') = Len(trace) + 1
        /\ clicked' \in 1..Len(links)
        /\ IsExactMatch(links[clicked'], item_name)
        /\ prompts' = prompts
        /\ entry' = entry ]_vars

C5_Witness ==
  /\ last = [op |-> "click_link", out |-> "ok"]
  /\ clicked = 2
  /\ ~IsExactMatch(links[1], item_name)
  /\ links[1].readable
  /\ IsExactMatch(links[2], item_name)
  /\ links[2].title # item_name

HasExactMatch == \E i \in 1..Len(links) : IsExactMatch(links[i], item_name)

\* the decimal numeral of a number below ten
Numeral(n) == <<Digits[n + 1]>>

ClicksLink(n) ==
  /\ last'.op = "click_link"
  /\ Len(trace') = Len(trace) + 1
  /\ clicked' = n

NoClick ==
  /\ trace' = trace
  /\ clicked' = clicked

\* the prompt for a new name was reached from the selection prompt (the search
\* before it found links)
AskedAfterSelection ==
  /\ variant = "inter"
  /\ pc = "prompt_name"
  /\ last = [op |-> "search", out |-> "ok"]

\* C6: with a non-empty result list and no exact match, the programmatic flow
\* clicks the first link; the interactive flow clicks the n-th link for an
\* entry n in 1..number of results, and for an empty entry asks for a new
\* product name and searches again, clicking no link.
C6_NoMatchSelection ==
  [][ /\ (variant = "prog" /\ pc = "select" /\ ~HasExactMatch) => ClicksLink(1)
      /\ (variant = "inter" /\ pc = "select" /\ ~HasExactMatch) =>
           /\ \A n \in 1..Len(links) : Strip(entry') = Numeral(n) => ClicksLink(n)
           /\ entry' = <<>> => (pc' = "prompt_name" /\ NoClick)
      /\ AskedAfterSelection => (pc' = "search" /\ NoClick) ]_vars

\* the same with the new name left out of account: what holds of the flow up
\* to the prompt for the new name
C6_UpToNewName ==
  [][ /\ (variant = "prog" /\ pc = "select" /\ ~HasExactMatch) => ClicksLink(1)
      /\ (variant = "inter" /\ pc = "select" /\ ~HasExactMatch) =>
           /\ \A n \in 1..Len(links) : Strip(entry') = Numeral(n) => ClicksLink(n)
           /\ entry' = <<>> => (pc' = "prompt_name" /\ NoClick)
      /\ AskedAfterSelection => (NoClick /\ (entry' # <<>> => pc' = "search")) ]_vars

\* the number of times an operation was attempted on the page
Times(op) == Cardinality({i \in 1..Len(trace) : trace[i] = op})

\* the flow has returned, or is returning, from inside the with block
Returning == pc \in {"with_exit", "emit", "done"} /\ exc = <<>>

\* the value being returned
Returned == IF pc = "with_exit" THEN ret ELSE result

\* the text begins with the six characters of "Error:"
IsErrorText(text) ==
  /\ Len(text) >= 6
  /\ SubSeq(text, 1, 6) = <<"E", "r", "r", "o", "r", ":">>

\* three searches were submitted, each one failing: the first two led to
\* another search, the third timed out or found no links
ThreeSearchesFailed ==
  /\ trace = <<"goto", "search", "search", "search">>
  /\ last.out \in {"timeout", "empty"}

\* C7: programmatic flow: after three consecutive failed searches the flow
\* returns an Error-prefixed search-failure result at once; the search is
\* never submitted more than three times, and nothing follows the exhaustion.
C7_SearchExhaustion ==
  variant = "prog" =>
    /\ Times("search") <= 3
    /\ Times("search") = attempts
    /\ ThreeSearchesFailed =>
         /\ Returning
         /\ IsErrorText(Returned)
         /\ Returned =
              IF last.out = "timeout"
              THEN <<"E", "r", "r", "o", "r", ":",
                     " Product search failed after multiple attempts">>
              ELSE <<"E", "r", "r", "o", "r", ":",
                     " No products found matching the search criteria">>

C7_Witness ==
  /\ variant = "prog"
  /\ pc = "done"
  /\ ThreeSearchesFailed
  /\ attempts = 3
  /\ result = <<"E", "r", "r", "o", "r", ":",
                " Product search failed after multiple attempts">>

\* the required controls of the programmatic flow, in the order of the flow,
\* each with the message of its failure
RequiredControls ==
  << [op |-> "add_to_cart",
      msg |-> <<"E", "r", "r", "o", "r", ":", " Add to Cart button not found">>],
     [op |-> "checkout",
      msg |-> <<"E", "r", "r", "o", "r", ":", " Checkout button not found">>],
     [op |-> "place_order",
      msg |-> <<"E", "r", "r", "o", "r", ":", " Place order button not found">>] >>

\* every selector configured for the control timed out
ControlTimedOut(c) == last = [op |-> c.op, out |-> "timeout"]

\* C8: programmatic flow: when every selector of a required control times
\* out, the flow returns that control's own message (add to cart, checkout,
\* place order) and performs nothing after it; conversely each of the three
\* messages is returned only for the control it names, which is the first
\* required control that failed.
C8_RequiredControlMessages ==
  variant = "prog" =>
    \A k \in 1..Len(RequiredControls) :
      LET c == RequiredControls[k] IN
        /\ ControlTimedOut(c) =>
             /\ Returning
             /\ Returned = c.msg
             /\ trace[Len(trace)] = c.op
             /\ Times(c.op) = 1
             /\ \A j \in 1..Len(RequiredControls) :
                  /\ j < k => Times(RequiredControls[j].op) = 1
                  /\ j > k => Times(RequiredControls[j].op) = 0
        /\ (ret = c.msg \/ result = c.msg) => ControlTimedOut(c)

C8_Witness ==
  /\ variant = "prog"
  /\ pc = "done"
  /\ ControlTimedOut(RequiredControls[3])
  /\ result = RequiredControls[3].msg
  /\ Times("add_to_cart") = 1
  /\ Times("checkout") = 1

\* place order was clicked and no confirmation appeared within any wait
Unconfirmed ==
  /\ variant = "prog"
  /\ Len(trace) >= 2
  /\ trace[Len(trace) - 1] = "place_order"
  /\ last = [op |-> "confirm", out |-> "timeout"]

\* C9: programmatic flow: when place order was clicked and no confirmation
\* is detected within its waits, the message returned is not Error-prefixed
\* and says the order may have been placed but confirmation was not detected;
\* the structured result of the run carries that message and no error.
C9_UnconfirmedNotError ==
  Unconfirmed =>
    /\ Returning
    /\ Returned = <<"Order may have been placed, but confirmation was not detected">>
    /\ ~IsErrorText(Returned)
    /\ pc = "done" =>
         /\ messages[Len(messages)].type = "json"
         /\ messages[Len(messages)].message = Returned
         /\ messages[Len(messages)].success = TRUE

C9_Witness ==
  /\ Unconfirmed
  /\ pc = "done"
  /\ Len(messages) = 2
  /\ messages[2].success = TRUE
  /\ ~IsErrorText(messages[2].message)

\* the structured result of a finished run
Structured == messages[Len(messages)]

\* the run ended in the handler of an exception that left the with block
UncaughtException == exc # <<>>

\* the run ended by the failure of a required step
FatalStepFailure ==
  \/ ThreeSearchesFailed
  \/ \E k \in 1..Len(RequiredControls) : ControlTimedOut(RequiredControls[k])
  \/ last \in { [op |-> "view_cart", out |-> "error"],
                [op |-> "checkout", out |-> "error"],
                [op |-> "place_order", out |-> "error"] }

\* C10: programmatic tool: in every structured result the success flag is
\* false exactly when the message is Error-prefixed; a fatal step failure and
\* an uncaught exception give success = false, a detected confirmation gives
\* success = true.
C10_SuccessIffNotError ==
  variant = "prog" =>
    /\ \A i \in 1..Len(messages) :
         messages[i].type = "json" =>
           (messages[i].success = FALSE <=> IsErrorText(messages[i].message))
    /\ (pc = "done" /\ (launches = 1 \/ UncaughtException)) =>
         /\ Structured.type = "json"
         /\ Structured.message = result
         /\ (FatalStepFailure \/ UncaughtException) => Structured.success = FALSE
         /\ last = [op |-> "confirm", out |-> "ok"] => Structured.success = TRUE

C10_Witness ==
  /\ variant = "prog"
  /\ pc = "done"
  /\ last = [op |-> "confirm", out |-> "ok"]
  /\ Structured.type = "json"
  /\ Structured.success = TRUE
  /\ Structured.message = <<"Purchase flow executed successfully: ", "Order #1 confirmed">>

\* the messages of each kind emitted so far
FlowStarts ==
  {i \in 1..Len(messages) :
     messages[i] = [type |-> "text", text |-> <<"Starting purchase flow...">>]}

StructuredResults ==
  {i \in 1..Len(messages) :
     /\ messages[i].type = "json"
     /\ messages[i].success \in BOOLEAN
     /\ messages[i].message \in Seq(STRING) }

\* C11: programmatic tool: every invocation, whatever the parameter mapping and
\* the page do, emits exactly one structured result (success flag and
\* message), preceded by exactly one flow-start message.
C11_OneResultPerInvocation ==
  variant = "prog" =>
    /\ Cardinality(StructuredResults) <= 1
    /\ Cardinality(FlowStarts) <= 1
    /\ \A i \in StructuredResults : \E j \in FlowStarts : j < i
    /\ pc = "done" =>
         /\ Cardinality(StructuredResults) = 1
         /\ Cardinality(FlowStarts) = 1

\* the same for the invocations whose parameters pass validation: the
\* category is valid and no required field is missing
C11_ValidatedInvocations ==
  (variant = "prog" /\ ~InputCategoryInvalid /\ InputMissing = {}) =>
    /\ Cardinality(StructuredResults) <= 1
    /\ Cardinality(FlowStarts) <= 1
    /\ \A i \in StructuredResults : \E j \in FlowStarts : j < i
    /\ pc = "done" => messages = <<messages[1], messages[2]>>
    /\ pc = "done" =>
         /\ StructuredResults = {2}
         /\ FlowStarts = {1}

\* loading the initial URL failed, by timeout or otherwise
GotoFailed ==
  /\ variant = "prog"
  /\ last.op = "goto"
  /\ last.out \in {"timeout", "error"}

\* the description of the exception page.goto raised
GotoExceptionText ==
  IF last.out = "timeout" THEN <<"Timeout exceeded.">>
  ELSE <<"Target page, context or browser has been closed">>

\* C12: programmatic flow: when loading the initial URL fails, nothing else is
\* done on the page (the navigation stays the only page operation to the end
\* of the run), and the result is "Error: " followed by the exception's
\* description, emitted with success = false.
C12_NavigationFailureAborts ==
  [][ /\ GotoFailed' =>
           /\ trace' = <<"goto">>
           /\ pc' \in {"with_exit", "except", "emit", "done"}
           /\ exc' = GotoExceptionText'
           /\ pc' \in {"emit", "done"} =>
                /\ result' = <<"E", "r", "r", "o", "r", ":", " ">> \o GotoExceptionText'
                /\ IsErrorText(result')
           /\ pc' = "done" =>
                messages'[Len(messages')] =
                  [type |-> "json", success |-> FALSE, message |-> result']
      /\ GotoFailed => GotoFailed' ]_vars

C12_Witness ==
  /\ GotoFailed
  /\ pc = "done"
  /\ last.out = "error"
  /\ Len(messages) = 2
  /\ messages[2].success = FALSE

\* the racquet's variant sub-steps, in the order of the flow
RacquetKeys == <<"size", "string_type", "string_tension">>

\* the request is for a racquet with size, string type and tension supplied
RacquetSupplied ==
  /\ category = <<"r","a","c","q","u","e","t">>
  /\ "variant_details" \in DOMAIN params
  /\ params["variant_details"].k = "dict"
  /\ \A i \in 1..3 :
       /\ RacquetKeys[i] \in DOMAIN params["variant_details"].v
       /\ params["variant_details"].v[RacquetKeys[i]] # <<>>

\* what was attempted on the page after the product link was clicked
AfterClick ==
  LET c == CHOOSE i \in 1..Len(trace) : trace[i] = "click_link"
  IN SubSeq(trace, c + 1, Len(trace))

\* a variant sub-step found nothing to act on
SubStepFailed ==
  /\ \E i \in 1..3 : last.op = RacquetKeys[i]
  /\ last.out = "timeout"

\* C13: racquet with size, string type and tension supplied, both variants:
\* the three sub-steps are attempted one after the other whatever the earlier
\* ones did, a sub-step that finds nothing does not end the flow, and add to
\* cart is what is attempted after them.
C13_RacquetSubSteps ==
  (RacquetSupplied /\ Times("click_link") = 1) =>
    /\ \A i \in 1..3 : i <= Len(AfterClick) => AfterClick[i] = RacquetKeys[i]
    /\ Len(AfterClick) >= 4 => AfterClick[4] = "add_to_cart"
    /\ SubStepFailed =>
         /\ exc = <<>>
         /\ ret = <<>>
         /\ pc = IF last.op = "string_tension" THEN "add_to_cart" ELSE "variant"
    /\ (pc = "add_to_cart" /\ exc = <<>>) => AfterClick = RacquetKeys

C13_Witness ==
  /\ RacquetSupplied
  /\ last = [op |-> "string_tension", out |-> "timeout"]
  /\ pc = "add_to_cart"
  /\ Times("click_link") = 1
  /\ AfterClick = RacquetKeys

\* what a run that attempted place order can return
AfterPlaceOrderResults ==
  { <<"E", "r", "r", "o", "r", ":", " Place order button not found">>,
    <<"E", "r", "r", "o", "r", ":", " Failed to place order: ",
      "Target page, context or browser has been closed">>,
    <<"Order may have been placed, but confirmation was not detected">>,
    <<"Order may have been placed, but confirmation could not be verified">>,
    <<"Purchase flow executed successfully: ", "Order #1 confirmed">>,
    <<"Purchase flow executed successfully: ", "Order placed successfully">>,
    <<"Purchase flow executed successfully: ", "Order confirmed">> }

\* nothing of the outcome of the run is touched by the step
OutcomeUntouched ==
  /\ exc' = exc
  /\ ret' = ret
  /\ result' = result
  /\ messages' = messages
  /\ browser' = browser

\* C14: programmatic flow: a step of the shipping or payment form, whether the
\* field is filled or matches none of its selectors, leaves the flow running
\* and its outcome untouched; from the form the flow goes on to place order
\* (only a non-timeout exception of the shipping-option or gift step can end
\* it before), and a run that attempted place order returns one of the
\* place-order or confirmation results, none of which reports a field.
C14_FieldFailureNotFatal ==
  [][ variant = "prog" =>
        /\ pc = "shipping" => (OutcomeUntouched /\ pc' \in {"shipping", "coupon"})
        /\ pc = "payment" => (OutcomeUntouched /\ pc' \in {"payment", "place_order"})
        /\ pc = "coupon" => (OutcomeUntouched /\ pc' = "shipping_option")
        /\ pc = "proceed" => (OutcomeUntouched /\ pc' = "payment")
        /\ pc \in {"shipping_option", "gift"} =>
             \/ OutcomeUntouched /\ pc' \in {"gift", "proceed"}
             \/ last' = [op |-> pc, out |-> "error"] /\ exc' # <<>>
        /\ (pc' = "done" /\ Times("place_order")' = 1) =>
             result' \in AfterPlaceOrderResults ]_vars

\* the email field matched no selector, the rest of the shipping block was
\* left out, and the order was placed and confirmed
C14_Witness ==
  /\ variant = "prog"
  /\ pc = "done"
  /\ Times("email") = 1
  /\ Times("phone") = 0
  /\ Times("card_number") = 1
  /\ last = [op |-> "confirm", out |-> "ok"]
  /\ result = <<"Purchase flow executed successfully: ", "Order #1 confirmed">>

\* the fields of the two forms
ShippingFormFields ==
  {"first_name", "last_name", "email", "phone", "address", "city", "state",
   "postal_code", "country"}

PaymentFormFields ==
  {"card_number", "card_expiration", "card_cvv"}
  \cup (IF params["billing_address"] # <<>>
           /\ params["billing_address"] # params["address"]
        THEN {"billing_address"} ELSE {})

\* C15: programmatic flow: when the shipping stage is over every one of its
\* nine fields has been attempted, and when the payment stage is over card
\* number, expiration, CVV and a differing billing address have been
\* attempted, whether or not an earlier field of the stage matched a selector.
C15_EveryFieldAttempted ==
  variant = "prog" =>
    /\ pc = "coupon" => \A f \in ShippingFormFields : Times(f) = 1
    /\ pc = "place_order" => \A f \in PaymentFormFields : Times(f) = 1

\* what does hold: the fields are attempted in order up to and including the
\* first of first name .. city (card number, CVV) that matches no selector
C15_UpToFirstUnmatched ==
  variant = "prog" =>
    /\ pc = "coupon" =>
         \/ \A f \in ShippingFormFields : Times(f) = 1
         \/ /\ last.out = "none"
            /\ last.op \in {"first_name", "last_name", "email", "phone",
                            "address", "city"}
    /\ pc = "place_order" =>
         \/ \A f \in PaymentFormFields : Times(f) = 1
         \/ /\ last.out = "none"
            /\ last.op \in {"card_number", "card_cvv"}

\* a field of the shipping or payment form was not found on the page
FieldNotFound ==
  /\ last.op \in ShippingFormFields
                   \cup {"card_number", "card_expiration", "card_cvv", "billing_address"}
  /\ last.out = "timeout"

\* C16: interactive variant: a shipping or payment field whose selector is not
\* found is skipped, the flow goes on towards place order, and the string
\* returned is never an "Error: ..." description on account of it.
C16_InteractiveFieldSkipped ==
  (variant = "inter" /\ FieldNotFound) =>
    /\ exc = <<>>
    /\ ret = <<>>
    /\ pc \in {"shipping", "coupon", "shipping_option", "gift", "proceed",
               "payment", "place_order"}
    /\ ~IsErrorText(result)

\* what does hold: the country field is the one field that is skipped; any
\* other field not found ends the flow with the timeout as an Error result
C16_OnlyCountrySkipped ==
  (variant = "inter" /\ FieldNotFound) =>
    IF last.op = "country"
    THEN exc = <<>> /\ ret = <<>> /\ pc \in {"coupon", "shipping_option", "gift", "proceed"}
    ELSE /\ exc = <<"Timeout exceeded.">>
         /\ pc \in {"with_exit", "except", "done"}
         /\ pc = "done" => result = <<"E", "r", "r", "o", "r", ":", " ", "Timeout exceeded.">>

\* no proceed-to-payment control was found under any configured selector
ProceedNotFound == last = [op |-> "proceed", out |-> "timeout"]

\* C17: in both variants, when no proceed-to-payment control is found the flow
\* does not end: nothing is returned or raised, and the payment fields are
\* what the flow attempts next.
C17_ProceedBestEffort ==
  ProceedNotFound =>
    /\ exc = <<>>
    /\ ret = <<>>
    /\ browser = "open"
    /\ pc = "payment"

\* what does hold: the programmatic flow goes on to the payment fields, the
\* interactive flow closes the browser and returns its own Error message
C17_ProgrammaticOnly ==
  ProceedNotFound =>
    IF variant = "prog"
    THEN exc = <<>> /\ ret = <<>> /\ browser = "open" /\ pc = "payment"
    ELSE /\ Times("card_number") = 0
         /\ Times("place_order") = 0
         /\ pc \in {"with_exit", "done"}
         /\ Returned = <<"E", "r", "r", "o", "r", ":", " Unable to proceed to payment">>

FourCategories ==
  { <<"r","a","c","q","u","e","t">>, <<"g","a","r","m","e","n","t">>,
    <<"s","h","o","e","s">>, <<"o","t","h","e","r">> }

\* C18: interactive collector: whatever is entered at the category prompt,
\* empty entries included, the collector either asks for the category again
\* or goes on with a category that is one of the four; it never fails on an
\* entry, and never reaches the later prompts or the browser launch with a
\* category that is not one of the four.
C18_CategoryReprompt ==
  [][ variant = "inter" =>
        /\ pc = "prompt_category" =>
             /\ pc' \in {"prompt_category", "prompt_details"}
             /\ exc' = <<>>
             /\ pc' = "prompt_details" => category' \in FourCategories
        /\ (pc' \in {"prompt_details", "launch"} \/ launches' > 0) =>
             category' \in FourCategories ]_vars

\* what does hold: an entry either leads to the category prompt again, or to
\* the later prompts with one of the four categories, or (the empty entry)
\* ends the script with the AttributeError of None.lower(); the later prompts
\* and the browser are never reached with another category
C18_ExceptEmptyEntry ==
  [][ variant = "inter" =>
        /\ pc = "prompt_category" =>
             \/ pc' = "prompt_category" /\ exc' = <<>>
             \/ pc' = "prompt_details" /\ exc' = <<>> /\ category' \in FourCategories
             \/ /\ pc' = "crashed"
                /\ exc' = <<"'NoneType' object has no attribute 'lower'">>
                /\ launches' = 0
        /\ (pc' \in {"prompt_details", "launch"} \/ launches' > 0) =>
             category' \in FourCategories ]_vars

CheckoutNotFoundText ==
  <<"E", "r", "r", "o", "r", ":", " Checkout button not found">>

\* C19: programmatic flow, cart/checkout stage: a view-cart control found
\* under neither selector is skipped and the checkout control is attempted
\* next; whatever the view-cart step did, a checkout control that is found
\* takes the flow to the shipping stage, and "Error: Checkout button not
\* found" is returned exactly when both checkout selectors time out.
C19_ViewCartSkipped ==
  [][ variant = "prog" =>
        /\ (pc = "view_cart" /\ last'.out = "timeout") =>
             /\ last'.op = "view_cart"
             /\ pc' = "checkout"
             /\ OutcomeUntouched
        /\ pc = "checkout" =>
             /\ last'.op = "checkout"
             /\ last'.out = "ok" => (pc' = "shipping" /\ OutcomeUntouched)
             /\ last'.out = "timeout" <=> ret' = CheckoutNotFoundText
        /\ pc # "checkout" => (ret' = CheckoutNotFoundText => ret = CheckoutNotFoundText) ]_vars

C19_Witness ==
  /\ variant = "prog"
  /\ last = [op |-> "view_cart", out |-> "timeout"]
  /\ pc = "checkout"
  /\ browser = "open"
  /\ ret = <<>>

\* the entry at the selection prompt is neither empty nor the number of a
\* listed result
InvalidSelection(e) ==
  /\ Strip(e) # <<>>
  /\ \A n \in 1..Len(links) : Strip(e) # Numeral(n)

\* C20: interactive flow, selection with no exact match: an entry that is not
\* a number, or a number outside 1..number of results, clicks no link, leaves
\* the item name as it is, and brings the flow back to the selection prompt
\* over the same list, with no search submitted for it.
C20_InvalidSelectionReprompts ==
  [][ (variant = "inter" /\ pc = "select" /\ ~HasExactMatch
         /\ InvalidSelection(entry')) =>
        /\ NoClick
        /\ item_name' = item_name
        /\ links' = links
        /\ pc' = "select" ]_vars

\* what does hold: no link is clicked and the item name stays, but the flow
\* goes back to the top of the loop, where the search is submitted again
C20_BackToSearch ==
  [][ (variant = "inter" /\ pc = "select" /\ ~HasExactMatch
         /\ InvalidSelection(entry')) =>
        /\ NoClick
        /\ item_name' = item_name
        /\ links' = links
        /\ pc' = "search" ]_vars

\* after an invalid selection the search was submitted again and failed: the
\* flow ends without the selection prompt having been presented a second time
C20_SearchedAgain ==
  /\ variant = "inter"
  /\ entry = <<"x">>
  /\ last = [op |-> "search", out |-> "error"]
  /\ Times("search") = 2
  /\ Times("click_link") = 0
  /\ exc # <<>>

\* the browser launch has been reached: the request has been collected
LaunchReached == playwright # "none"

\* C21: the purchase request is never modified after it is constructed: from
\* the browser launch on, in both variants, no step changes the item name, the
\* category or the collected variant, shipping and payment values, so every
\* search of a run submits the same item name.
C21_RequestImmutable ==
  [][ LaunchReached =>
        /\ item_name' = item_name
        /\ category' = category
        /\ params' = params ]_vars

\* what does hold: the category and the collected values never change after
\* the launch, the item name never changes in the programmatic flow, and in
\* the interactive flow it changes only at a prompt for a new product name
C21_ExceptInteractiveName ==
  [][ LaunchReached =>
        /\ category' = category
        /\ params' = params
        /\ item_name' # item_name =>
             (variant = "inter" /\ pc = "prompt_name" /\ pc' = "search") ]_vars

\* the request is for a garment or shoes with size and color supplied
SizeColorSupplied ==
  /\ category \in {<<"g","a","r","m","e","n","t">>, <<"s","h","o","e","s">>}
  /\ "variant_details" \in DOMAIN params
  /\ params["variant_details"].k = "dict"
  /\ \A key \in {"size", "color"} :
       /\ key \in DOMAIN params["variant_details"].v
       /\ params["variant_details"].v[key] # <<>>

\* the variant stage of such a request: the size click first, then the color
\* click whether the size was found or not, then add to cart
SizeThenColor ==
  /\ Len(AfterClick) >= 1 => AfterClick[1] = "size"
  /\ Len(AfterClick) >= 2 => AfterClick[2] = "color"
  /\ last = [op |-> "size", out |-> "timeout"] =>
       (exc = <<>> /\ ret = <<>> /\ pc = "variant")
  /\ (pc = "add_to_cart" /\ exc = <<>>) => AfterClick = <<"size", "color">>

\* C22: garment or shoes with size and color supplied, both variants: the
\* variant stage attempts a size click and a color click, the color click
\* being attempted whether or not the size click succeeded.
C22_SizeAndColorClicked ==
  (SizeColorSupplied /\ Times("click_link") = 1) => SizeThenColor

\* what does hold: the programmatic flow attempts both clicks
C22_ProgrammaticOnly ==
  (variant = "prog" /\ SizeColorSupplied /\ Times("click_link") = 1) =>
    SizeThenColor

\* the programmatic flow at add to cart after a size click and a color click
C22_BothClicksAttempted ==
  /\ variant = "prog"
  /\ SizeColorSupplied
  /\ Times("click_link") = 1
  /\ Times("size") = 1
  /\ last.op = "color"
  /\ pc = "add_to_cart"

\* the text asserts that the purchase succeeded
IsSuccessText(text) ==
  /\ text # <<>>
  /\ Head(text) \in
       { "Purchase flow executed successfully: ",
         "Purchase flow executed successfully (please verify your order on the website)." }

\* the text says the order may have been placed
IsAmbiguousText(text) ==
  text \in
    { <<"Order may have been placed, but confirmation was not detected">>,
      <<"Order may have been placed, but confirmation could not be verified">> }

\* an order confirmation was detected on the page
ConfirmationDetected == last = [op |-> "confirm", out |-> "ok"]

\* a result asserts success only after a confirmation was detected, and a run
\* whose waits for the confirmation all ran out returns the ambiguous result
SuccessOnlyWhenConfirmed ==
  /\ IsSuccessText(ret) => ConfirmationDetected
  /\ IsSuccessText(result) => ConfirmationDetected
  /\ (last = [op |-> "confirm", out |-> "timeout"] /\ Returning) =>
       IsAmbiguousText(Returned)

\* C23: in both variants a result asserting that the purchase succeeded is
\* returned only on runs in which an order confirmation was detected on the
\* page; when none is detected the result is of the "order may have been
\* placed" kind, never a plain success.
C23_SuccessOnlyWhenConfirmed == SuccessOnlyWhenConfirmed

\* what does hold: the programmatic flow asserts success only when confirmed
C23_ProgrammaticOnly == variant = "prog" => SuccessOnlyWhenConfirmed

\* the programmatic flow returning a success after a detected confirmation
C23_ConfirmedSuccess ==
  /\ variant = "prog"
  /\ ConfirmationDetected
  /\ IsSuccessText(result)
  /\ pc = "done"

\* the invocation carries no billing address
BillingAbsent == tool_parameters["billing_address"].k = "absent"

\* the billing address of the request is non-empty and not the shipping address
BillingDiffers ==
  /\ params["billing_address"] # <<>>
  /\ params["billing_address"] # params["address"]

\* the programmatic flow has a request and is past its payment block
PaymentBlockDone ==
  /\ variant = "prog"
  /\ params # NoParams
  /\ \/ pc = "place_order"
     \/ Times("place_order") = 1

\* C24: programmatic tool, billing address: when none is supplied it equals
\* the shipping address and no billing-address fill is ever attempted; a run
\* that went through the payment stage attempted a billing-address fill
\* exactly when the billing address is non-empty and differs from the
\* shipping address.
C24_BillingAddress ==
  (variant = "prog" /\ params # NoParams) =>
    /\ BillingAbsent =>
         /\ params["billing_address"] = params["address"]
         /\ Times("billing_address") = 0
    /\ Times("billing_address") >= 1 => BillingDiffers
    /\ PaymentBlockDone => (Times("billing_address") = 1 <=> BillingDiffers)

\* what does hold: the default, no fill unless the address differs, and a
\* fill for a differing address when the card number and the CVV were matched
C24_WhenBlockReachesIt ==
  (variant = "prog" /\ params # NoParams) =>
    /\ BillingAbsent =>
         /\ params["billing_address"] = params["address"]
         /\ Times("billing_address") = 0
    /\ Times("billing_address") >= 1 => BillingDiffers
    /\ (PaymentBlockDone /\ BillingDiffers /\ Times("billing_address") = 0) =>
         \E i \in 1..Len(trace) :
           /\ trace[i] \in {"card_number", "card_cvv"}
           /\ i < Len(trace) => trace[i + 1] = "place_order"

\* a supplied billing address that strips to the shipping address: the
\* payment stage went by with no billing-address fill
C24_SameAddressNotFilled ==
  /\ variant = "prog"
  /\ ~BillingAbsent
  /\ params # NoParams
  /\ params["billing_address"] = params["address"]
  /\ Times("card_cvv") = 1
  /\ Times("billing_address") = 0
  /\ Times("place_order") = 1

\* C25: programmatic tool: the category is validated before the required
\* fields, so a mapping with an invalid category and missing required fields
\* gets the invalid-category message alone: one message, which names none of
\* the missing fields, and no browser use.
C25_CategoryCheckedFirst ==
  (variant = "prog" /\ pc # "invoke" /\ InputCategoryInvalid /\ InputMissing # {}) =>
    /\ pc = "done"
    /\ Len(messages) = 1
    /\ messages[1].type = "text"
    /\ StartsWith(messages[1].text, <<"Invalid category '">>)
    /\ ~StartsWith(messages[1].text, <<"Missing required fields: ">>)
    /\ Range(messages[1].text) \cap Range(required_fields) = {}
    /\ NoBrowserUse

C25_Witness ==
  /\ variant = "prog"
  /\ pc = "done"
  /\ tool_parameters["category"] = S(<<"b","i","k","e">>)
  /\ InputMissing = {"first_name", "card_number"}
  /\ Len(messages) = 1
  /\ messages[1].text[1] = "Invalid category '"

\* the stages a later stage depends on, in the order the flow performs them
RequiredStages == <<"goto", "click_link", "add_to_cart", "checkout", "place_order">>

\* position in the trace of the first attempt of an operation (0: none)
FirstAt(op) ==
  IF Times(op) = 0 THEN 0
  ELSE CHOOSE i \in 1..Len(trace) :
         trace[i] = op /\ \A j \in 1..(i - 1) : trace[j] # op

\* a link click, an add to cart and a checkout were attempted, in this order
LinkCartCheckout ==
  /\ FirstAt("click_link") > 0
  /\ FirstAt("click_link") < FirstAt("add_to_cart")
  /\ FirstAt("add_to_cart") < FirstAt("checkout")

\* C26: programmatic flow, ordering: a page operation is attempted only when
\* the required stage before it (page load, link click, add to cart, checkout,
\* place order) ended well, and the place-order control is attempted only
\* after a link click, an add to cart and a checkout of the same run, in this
\* order; so place order is clicked only after all three succeeded.
C26_StageOrder ==
  [][ (variant = "prog" /\ trace' # trace) =>
        /\ last.op \in Range(RequiredStages) => last.out = "ok"
        /\ last'.op \in {"add_to_cart", "checkout", "place_order"} =>
             Times("click_link") = 1
        /\ last'.op \in {"checkout", "place_order"} => Times("add_to_cart") = 1
        /\ last'.op = "place_order" =>
             /\ Times("checkout") = 1
             /\ Times("place_order") = 0
             /\ LinkCartCheckout ]_vars

C26_Witness ==
  /\ variant = "prog"
  /\ last = [op |-> "place_order", out |-> "ok"]
  /\ LinkCartCheckout
  /\ FirstAt("checkout") < FirstAt("place_order")
  /\ pc = "confirm"

\* C27: programmatic flow: at most one browser is launched per invocation,
\* browser.close() is called at most once in a run, a browser is launched or
\* closed only while none, respectively one, is open, and no page operation
\* is performed once the browser is closed or gone.
C27_OneBrowser ==
  [][ variant = "prog" =>
        /\ launches' <= 1
        /\ closes' <= 1
        /\ launches' # launches => (browser = "none" /\ browser' = "open")
        /\ closes' # closes => (browser = "open" /\ browser' = "closed")
        /\ browser # "open" => trace' = trace ]_vars

C27_Witness ==
  /\ variant = "prog"
  /\ launches = 1
  /\ closes = 1
  /\ browser = "closed"
  /\ pc = "done"
  /\ Times("place_order") = 1

\* the invocation has ended
Terminated == pc = "done"

\* C28: programmatic flow, every page operation completing or timing out:
\* every invocation terminates, one that passed validation returns a result
\* to its caller, and the search loop submits at most three searches, none
\* after a product link was clicked.
C28_Terminates ==
  /\ <>Terminated
  /\ (pc = "launch") ~> (Terminated /\ result # <<>>)
  /\ [](Times("search") <= 3 /\ attempts <= 3)
  /\ []((Times("click_link") = 1 /\ last.op # "click_link") => pc # "search")

C28_Witness ==
  /\ variant = "prog"
  /\ Terminated
  /\ result # <<>>
  /\ Times("search") = 3
  /\ Times("click_link") = 1
  /\ Times("place_order") = 1

UnableToSelectText ==
  <<"E", "r", "r", "o", "r", ":", " Unable to select a product">>

\* C29: programmatic flow: "Error: Unable to select a product" is never
\* returned nor emitted: the search loop is never left by its condition
\* without a product selected, every pass that used up the attempts returns
\* from inside the loop, and the flow is past the loop only after a link
\* click.
C29_UnableToSelectUnreachable ==
  variant = "prog" =>
    /\ ret # UnableToSelectText
    /\ result # UnableToSelectText
    /\ \A i \in 1..Len(messages) :
         messages[i].type = "json" => messages[i].message # UnableToSelectText
    /\ Times("loop_exit") = 0
    /\ (pc = "search" /\ exc = <<>>) => attempts < 3
    /\ (attempts = 3 /\ last.op = "search" /\ last.out \in {"timeout", "empty"}) =>
         (pc # "search" /\ IsErrorText(Returned) /\ browser # "open")
    /\ pc = "variant" => (clicked # 0 /\ Times("click_link") = 1)

C29_Witness ==
  /\ variant = "prog"
  /\ attempts = 3
  /\ Times("search") = 3
  /\ last = [op |-> "search", out |-> "empty"]
  /\ pc = "done"
  /\ result = <<"E", "r", "r", "o", "r", ":",
                " No products found matching the search criteria">>

====
